---- MODULE Spec2Model ----
(***************************************************************************)
(* A model of packages/blinks-core/src/api/Action/Action.ts: the Action    *)
(* entity, its constructor and component factory, and the operations that  *)
(* derive Actions from Actions (chain, refresh, withUpdate) or create them *)
(* (fetch, hydrate), with the network requests they issue in flight; and   *)
(* of packages/blinks-core/src/hooks: useBlinkList, useActionApiUrl and    *)
(* useAction, with the promises they wait for and their ignore flags.      *)
(*                                                                         *)
(* Strings are sequences of tokens, so that startsWith, concatenation,     *)
(* split, trim and URL origin extraction are computed, not assumed.        *)
(* An optional value (T | undefined) is a sequence of length 0 or 1.       *)
(* Action urls range over absolute URLs: fetch needs one to issue its GET  *)
(* and hydrate is documented "use this only if the action is valid".       *)
(***************************************************************************)
EXTENDS Integers, Sequences, FiniteSets, TLC

\* ------------------------------------------------------------ bounds
\* Capacity of the heap of Action instances.
MaxActions == 2
\* Capacity of the heap when lineages are followed (LineageSpec).
MaxLineage == 3
\* Number of network requests that may be in flight at once.
MaxInflight == 1
\* Longest parameter list given to the component factory.
MaxParameters == 2
\* Largest delay, in milliseconds, of a live-data configuration.
MaxDelayMs == 5000
\* Number of operations (list fetches, unfurls, fetches) the hooks may initiate.
MaxStarted == 4

\* ------------------------------------------------------------ optionals
None == <<>>
Some(x) == <<x>>
IsSome(o) == Len(o) = 1
Get(o) == o[1]
\* a ?? b
OrElse(o, d) == IF IsSome(o) THEN Get(o) ELSE d

\* ------------------------------------------------------------ strings, URLs
HostTokens == {"a.com", "b.com", ".b.com"}

\* s.startsWith('http')
StartsWithHttp(s) == Len(s) > 0 /\ Head(s) = "https://"

\* new URL(u).origin for an absolute URL u: the scheme and the whole host,
\* up to the first token of the path.
HostEnd(u) ==
  CHOOSE k \in 1..Len(u) :
    /\ \A i \in 2..k : u[i] \in HostTokens
    /\ (k = Len(u) \/ u[k + 1] \notin HostTokens)

UrlOrigin(u) == SubSeq(u, 1, HostEnd(u))

\* isUrlSameOrigin(origin, url): a href that is not absolute is resolved
\* against the origin and so belongs to it; an absolute one is compared.
isUrlSameOrigin(origin, href) ==
  IF StartsWithHttp(href) THEN UrlOrigin(href) = origin ELSE TRUE

\* proxify(url): the request goes through the proxying capability.
proxify(url) ==
  [url |-> <<"proxy?url=">> \o url, headers |-> "proxyHeaders"]

\* s.trim(): leading and trailing blanks removed.
RECURSIVE TrimLeft(_)
TrimLeft(s) ==
  IF s # <<>> /\ Head(s) = " " THEN TrimLeft(Tail(s)) ELSE s

RECURSIVE TrimRight(_)
TrimRight(s) ==
  IF s # <<>> /\ s[Len(s)] = " "
  THEN TrimRight(SubSeq(s, 1, Len(s) - 1))
  ELSE s

Trim(s) == TrimRight(TrimLeft(s))

\* s.split(','): the pieces between the commas, one at least.
RECURSIVE SplitFrom(_, _, _)
SplitFrom(s, cur, acc) ==
  IF s = <<>> THEN Append(acc, cur)
  ELSE IF Head(s) = "," THEN SplitFrom(Tail(s), <<>>, Append(acc, cur))
  ELSE SplitFrom(Tail(s), Append(cur, Head(s)), acc)

Split(s) == SplitFrom(s, <<>>, <<>>)

\* xs.map((id) => id.trim())
TrimAll(xs) == [i \in 1..Len(xs) |-> Trim(xs[i])]

\* ------------------------------------------------------------ metadata
BASELINE_ACTION_VERSION == <<"2.0">>
BASELINE_ACTION_BLOCKCHAIN_IDS == << <<"solana:mainnet">> >>

\* getActionMetadata(response)
getActionMetadata(response) ==
  LET ids == response.headers.blockchainIds
      ver == response.headers.version
  IN [blockchainIds |-> IF IsSome(ids) THEN Some(TrimAll(Split(Get(ids)))) ELSE None,
      version |-> IF IsSome(ver) THEN Some(Trim(Get(ver))) ELSE None]

\* ------------------------------------------------------------ components
MULTI_VALUE_TYPES == {"checkbox"}

\* A component: its class and what its constructor is given. The parent it
\* is given is the Action under construction itself and is left out.
Component(kind, label, href, type, parameters) ==
  [kind |-> kind, label |-> label, href |-> href, type |-> type,
   parameters |-> parameters]

\* The factory without the multi-value class.
componentFactory_NoMultiValue(label, href, type, parameters) ==
  IF ~IsSome(parameters) \/ Len(Get(parameters)) = 0
  THEN Component("Button", label, href, type, None)
  ELSE IF Len(Get(parameters)) > 1
  THEN Component("Form", label, href, type, parameters)
  ELSE Component("SingleValue", label, href, type, parameters)

\* componentFactory(parent, label, href, type, parameters)
componentFactory(label, href, type, parameters) ==
  IF ~IsSome(parameters) \/ Len(Get(parameters)) = 0
  THEN Component("Button", label, href, type, None)
  ELSE IF Len(Get(parameters)) > 1
  THEN Component("Form", label, href, type, parameters)
  ELSE IF ~IsSome(Get(parameters)[1].type)
  THEN Component("SingleValue", label, href, type, parameters)
  ELSE IF Get(Get(parameters)[1].type) \in MULTI_VALUE_TYPES
  THEN Component("MultiValue", label, href, type, parameters)
  ELSE Component("SingleValue", label, href, type, parameters)

\* ------------------------------------------------------------ the Action
NotChained == [isChained |-> FALSE]
Chained(inline) == [isChained |-> TRUE, isInline |-> inline]

\* The component of one linked action (the body of the constructor's map).
LinkedComponent(url, action) ==
  componentFactory(
    action.label,
    IF StartsWithHttp(action.href) THEN action.href
    ELSE UrlOrigin(url) \o action.href,
    OrElse(action.type, "transaction"),
    action.parameters)

\* The constructor's _actions.
ConstructActions(url, data) ==
  IF data.type = "completed" \/ ~IsSome(data.links)
  THEN << Component("Button", data.label, url, "transaction", None) >>
  ELSE [i \in 1..Len(Get(data.links)) |-> LinkedComponent(url, Get(data.links)[i])]

\* new Action(url, data, metadata, supportStrategy, chainMetadata?, id?, experimental?)
NewAction(url, data, metadata, supportStrategy, chainMetadata, id, experimental) ==
  [url |-> url,
   data |-> data,
   metadata |-> metadata,
   supportStrategy |-> supportStrategy,
   chainMetadata |-> OrElse(chainMetadata, NotChained),
   id |-> id,
   experimental |-> experimental,
   actions |-> ConstructActions(url, data)]

\* get isChained, get isInline
isChained(a) == a.chainMetadata.isChained
isInline(a) == IF a.chainMetadata.isChained THEN a.chainMetadata.isInline ELSE FALSE

\* get metadata: the baseline fallback is applied at read time.
metadata(a) ==
  [blockchainIds |-> Some(OrElse(a.metadata.blockchainIds, BASELINE_ACTION_BLOCKCHAIN_IDS)),
   version |-> Some(OrElse(a.metadata.version, BASELINE_ACTION_VERSION))]

\* Math.max(a, b)
Max(a, b) == IF a >= b THEN a ELSE b

EXPERIMENTAL_LIVE_DATA_DEFAULT_DELAY_MS == 1000

\* The getter with the delay passed through as configured.
liveData_experimental_NoClamp(a) ==
  LET liveData == IF IsSome(a.experimental) THEN Get(a.experimental).liveData ELSE None
  IN IF ~IsSome(liveData) THEN None
     ELSE Some([enabled |-> Get(liveData).enabled,
                delayMs |-> OrElse(Get(liveData).delayMs,
                                   EXPERIMENTAL_LIVE_DATA_DEFAULT_DELAY_MS)])

\* The getter answering null for a configuration that is not enabled.
liveData_experimental_NullWhenDisabled(a) ==
  LET liveData == IF IsSome(a.experimental) THEN Get(a.experimental).liveData ELSE None
  IN IF ~IsSome(liveData) \/ ~Get(liveData).enabled THEN None
     ELSE Some([enabled |-> TRUE,
                delayMs |-> IF IsSome(Get(liveData).delayMs) /\ Get(Get(liveData).delayMs) # 0
                            THEN Max(Get(Get(liveData).delayMs),
                                     EXPERIMENTAL_LIVE_DATA_DEFAULT_DELAY_MS)
                            ELSE EXPERIMENTAL_LIVE_DATA_DEFAULT_DELAY_MS])

\* get liveData_experimental: null without a liveData object; a delay that is
\* undefined or 0 is falsy and gives the default.
liveData_experimental(a) ==
  LET liveData == IF IsSome(a.experimental) THEN Get(a.experimental).liveData ELSE None
  IN IF ~IsSome(liveData) THEN None
     ELSE Some([enabled |-> Get(liveData).enabled,
                delayMs |-> IF IsSome(Get(liveData).delayMs) /\ Get(Get(liveData).delayMs) # 0
                            THEN Max(Get(Get(liveData).delayMs),
                                     EXPERIMENTAL_LIVE_DATA_DEFAULT_DELAY_MS)
                            ELSE EXPERIMENTAL_LIVE_DATA_DEFAULT_DELAY_MS])

\* ------------------------------------------------------------ support
\* The verdict of isSupported when the strategy fails.
FailedVerdict ==
  [isSupported |-> FALSE,
   message |-> Some("Failed to check supportability, please contact your Blink client provider.")]

Strategies == {"defaultActionSupportStrategy", "throwing", "rejecting"}

Adapters == {[supportedBlockchainIds |-> {<<"solana:mainnet">>}]}

\* defaultActionSupportStrategy(action, adapter): the action's effective
\* metadata against what the adapter declares.
defaultActionSupportStrategy(a, adapter) ==
  LET ids == Get(metadata(a).blockchainIds)
      ok == \A i \in 1..Len(ids) : ids[i] \in adapter.supportedBlockchainIds
  IN [isSupported |-> ok,
      message |-> IF ok THEN None ELSE Some("unsupported blockchain")]

\* A call of the strategy bound to an Action: it returns a verdict, throws
\* synchronously, or returns a promise that rejects.
CallStrategy(strategy, a, adapter) ==
  CASE strategy = "defaultActionSupportStrategy" ->
         [kind |-> "return", verdict |-> defaultActionSupportStrategy(a, adapter)]
    [] strategy = "throwing" -> [kind |-> "throw", verdict |-> None]
    [] strategy = "rejecting" -> [kind |-> "reject", verdict |-> None]

\* A settled promise: fulfilled with a value (null is None), or rejected.
Fulfilled(v) == [outcome |-> "fulfilled", value |-> v]
Rejected == [outcome |-> "rejected", value |-> None]

\* isSupported returning the strategy's promise without awaiting it: a
\* rejection passes the catch.
isSupported_NoAwait(a, adapter) ==
  LET r == CallStrategy(a.supportStrategy, a, adapter)
  IN IF r.kind = "return" THEN Fulfilled(Some(r.verdict))
     ELSE IF r.kind = "throw" THEN Fulfilled(Some(FailedVerdict))
     ELSE Rejected

\* Action.isSupported(adapter)
isSupported(a, adapter) ==
  LET r == CallStrategy(a.supportStrategy, a, adapter)
  IN IF r.kind = "return" THEN Fulfilled(Some(r.verdict))
     ELSE Fulfilled(Some(FailedVerdict))

\* ------------------------------------------------------------ chain
\* The inline Action given the receiver's chain metadata.
chainInline_KeepsLineage(self, next, id) ==
  NewAction(self.url, next.action, metadata(self), self.supportStrategy,
            Some(self.chainMetadata), Some(id), None)

\* chain, next.type === 'inline': the Action built from the embedded manifest.
chainInline(self, next, id) ==
  NewAction(self.url, next.action, metadata(self), self.supportStrategy,
            Some(Chained(TRUE)), Some(id), None)

\* The check comparing the scheme alone.
chainSameOrigin_SchemeOnly(self, next) ==
  IF StartsWithHttp(next.href) THEN Head(next.href) = Head(self.url) ELSE TRUE

\* chain: the same-origin check on a remote link.
chainSameOrigin(self, next) == isUrlSameOrigin(UrlOrigin(self.url), next.href)

\* A relative href appended to the receiver's url instead of its origin.
chainHref_AgainstUrl(self, next) ==
  IF StartsWithHttp(next.href) THEN next.href ELSE self.url \o next.href

\* chain: the href the POST goes to.
chainHref(self, next) ==
  IF StartsWithHttp(next.href) THEN next.href ELSE UrlOrigin(self.url) \o next.href

\* chain: the POST issued through the proxy.
chainRequest(href, chainData) ==
  [method |-> "POST", url |-> proxify(href).url, body |-> <<"JSON", chainData>>,
   headers |-> proxify(href).headers]

\* The chained Action given the receiver's id.
chainResponse_KeepsId(self, href, id, response) ==
  IF response.failed THEN Rejected
  ELSE IF ~response.ok THEN Fulfilled(None)
  ELSE IF ~IsSome(response.json) THEN Rejected
  ELSE Fulfilled(Some(
         NewAction(href, Get(response.json), getActionMetadata(response),
                   self.supportStrategy, Some(Chained(FALSE)), self.id, None)))

\* chain, after the POST: null on a response that is not ok, the chained
\* Action otherwise; a failed fetch or an unparsable body rejects the promise
\* chain returned.
chainResponse(self, href, id, response) ==
  IF response.failed THEN Rejected
  ELSE IF ~response.ok THEN Fulfilled(None)
  ELSE IF ~IsSome(response.json) THEN Rejected
  ELSE Fulfilled(Some(
         NewAction(href, Get(response.json), getActionMetadata(response),
                   self.supportStrategy, Some(Chained(FALSE)), Some(id), None)))

\* ------------------------------------------------------------ fetch
\* _fetch: the GET issued through the proxy.
fetchRequest(apiUrl) ==
  [method |-> "GET", url |-> proxify(apiUrl).url, body |-> "none",
   headers |-> proxify(apiUrl).headers]

\* _fetch binding the default strategy instead of the one it is given.
fetchResponse_DefaultStrategy(apiUrl, supportStrategy, chainMetadata, id, response) ==
  IF response.failed \/ ~response.ok \/ ~IsSome(response.json) THEN Rejected
  ELSE Fulfilled(Some(
         NewAction(apiUrl, [Get(response.json) EXCEPT !.type = "action"],
                   getActionMetadata(response), "defaultActionSupportStrategy",
                   chainMetadata, id, Get(response.json).dialectExperimental)))

\* _fetch, after the GET: throws on a response that is not ok.
fetchResponse(apiUrl, supportStrategy, chainMetadata, id, response) ==
  IF response.failed \/ ~response.ok \/ ~IsSome(response.json) THEN Rejected
  ELSE Fulfilled(Some(
         NewAction(apiUrl, [Get(response.json) EXCEPT !.type = "action"],
                   getActionMetadata(response), supportStrategy, chainMetadata,
                   id, Get(response.json).dialectExperimental)))

\* Action.hydrate(url, data, metadata, supportStrategy)
hydrate(url, data, meta, supportStrategy, id) ==
  NewAction(url, data, meta, supportStrategy, Some(NotChained), Some(id), None)

\* Action.fetch(apiUrl, supportStrategy): the arguments it gives _fetch.
fetch(apiUrl, supportStrategy, id) ==
  [apiUrl |-> apiUrl, supportStrategy |-> supportStrategy,
   chainMetadata |-> Some(NotChained), id |-> Some(id)]

\* refresh() that leaves the chain lineage to the constructor's default.
refresh_NoLineage(self) ==
  [apiUrl |-> self.url, supportStrategy |-> self.supportStrategy,
   chainMetadata |-> None, id |-> self.id]

\* refresh(): the arguments it gives _fetch.
refresh(self) ==
  [apiUrl |-> self.url, supportStrategy |-> self.supportStrategy,
   chainMetadata |-> Some(self.chainMetadata), id |-> self.id]

\* withUpdate that leaves the experimental features out of the copy.
withUpdate_NoExperimental(self, update) ==
  NewAction(self.url, self.data, self.metadata,
            OrElse(update.supportStrategy, self.supportStrategy),
            Some(self.chainMetadata), self.id, None)

\* withUpdate(update)
withUpdate(self, update) ==
  NewAction(self.url, self.data, self.metadata,
            OrElse(update.supportStrategy, self.supportStrategy),
            Some(self.chainMetadata), self.id, self.experimental)

\* ------------------------------------------------------------ inputs
Urls == {<<"https://", "a.com", "/api">>}

Hrefs ==
  {<<"/next">>,
   <<".b.com", "/next">>,
   <<"https://", "a.com", "/next">>,
   <<"https://", "b.com", "/next">>}

LiveData200 == Some([liveData |-> Some([enabled |-> TRUE, delayMs |-> Some(200)])])

Manifest(type, links, experimental) ==
  [type |-> type, label |-> "Go", links |-> links, dialectExperimental |-> experimental]

AmountLink ==
  [href |-> <<"/next">>, label |-> "Send", type |-> None,
   parameters |-> Some(<< [name |-> "amt", type |-> None] >>)]

Manifests ==
  {Manifest("completed", None, None),
   Manifest("action", Some(<<>>), None),
   Manifest("action", Some(<<AmountLink>>), LiveData200)}

\* The arguments hydrate is called with: url, data, metadata, supportStrategy.
HydrateArgs ==
  {<<u, Manifest("completed", None, None),
     [blockchainIds |-> None, version |-> None], "defaultActionSupportStrategy">> : u \in Urls}
  \cup
  {<<u, Manifest("action", Some(<<AmountLink>>), None),
     [blockchainIds |-> Some(<< <<"eip155:1">> >>), version |-> Some(<<"2.2">>)],
     s>> : u \in Urls, s \in {"defaultActionSupportStrategy", "throwing"}}
  \cup
  {<<u, Manifest("action", Some(<<>>), LiveData200),
     [blockchainIds |-> None, version |-> Some(<<"2.2">>)], "rejecting">> : u \in Urls}

NoHeaders == [blockchainIds |-> None, version |-> None]

PaddedHeaders ==
  [blockchainIds |-> Some(<<" ", "solana:mainnet", ",", " ", "eip155:1">>),
   version |-> Some(<<"2.2", " ">>)]

Response(failed, ok, json, headers) ==
  [failed |-> failed, ok |-> ok, json |-> json, headers |-> headers]

\* What a request can come back with: no response at all (fetch rejects), a
\* status that is not ok, a body that is not JSON, or a manifest.
Responses ==
  {Response(TRUE, FALSE, None, NoHeaders),
   Response(FALSE, FALSE, None, NoHeaders),
   Response(FALSE, TRUE, None, NoHeaders),
   Response(FALSE, TRUE, Some(Manifest("completed", None, None)), NoHeaders),
   Response(FALSE, TRUE, Some(Manifest("action", Some(<<>>), None)), PaddedHeaders),
   Response(FALSE, TRUE, Some(Manifest("completed", Some(<<AmountLink>>), None)), NoHeaders),
   Response(FALSE, TRUE, Some(Manifest("action", Some(<<AmountLink>>), LiveData200)),
            PaddedHeaders)}

Links ==
  {[type |-> "inline", action |-> m, href |-> None] : m \in Manifests}
  \cup {[type |-> "post", action |-> None, href |-> h] : h \in Hrefs}

ChainDatas == {"chainData"}

Updates == {[supportStrategy |-> o] : o \in {None} \cup {Some(s) : s \in Strategies}}

\* ------------------------------------------------------------ state
VARIABLES
  heap,      \* the Action instances constructed so far, in order of construction
  made,      \* for each instance, the call that constructed it and its receiver
  nanoid,    \* the number of ids nanoid() has generated
  inflight,  \* the requests awaiting their response, with the call that waits
  last,      \* the call that settled last: its receiver, argument and result
  probe,     \* one evaluation of a pure function: its input and its result
  mounted,       \* the component that calls the hooks is mounted
  useAction,     \* props and state of useAction, useActionApiUrl included
  useBlinkList,  \* state of useBlinkList
  pending,       \* the promises the hooks wait for, each with its ignore flag
  started,       \* how many operations the hooks have initiated
  settled        \* the promise that settled last and the last one committed of each kind

vars ==
  <<heap, made, nanoid, inflight, last, probe,
    mounted, useAction, useBlinkList, pending, started, settled>>

hookVars == <<mounted, useAction, useBlinkList, pending, started, settled>>

\* The state the operations of Action leave alone.
outside == <<probe, hookVars>>

\* No function under evaluation.
NoProbe == [fn |-> "none", input |-> None, done |-> FALSE, result |-> None]

\* An instance written over the one constructed last.
Allocate_InPlace(h, a) == IF h = <<>> THEN <<a>> ELSE [h EXCEPT ![Len(h)] = a]

\* new: the instance is added to the heap; no instance is written again.
Allocate(h, a) == Append(h, a)

Call(op, self, arg, result, value, requests, response) ==
  [op |-> op, self |-> self, arg |-> arg, outcome |-> result.outcome,
   value |-> value, verdict |-> None, requests |-> requests, response |-> response]

\* No Action constructed, no call made.
NoActions ==
  /\ heap = <<>>
  /\ made = <<>>
  /\ nanoid = 0
  /\ inflight = <<>>
  /\ last = Call("none", 0, None, Fulfilled(None), None, <<>>, None)

\* No component that calls the hooks.
NoHooks ==
  /\ mounted = FALSE
  /\ useAction = None
  /\ useBlinkList = None
  /\ pending = {}
  /\ started = 0
  /\ settled = None

Init ==
  /\ NoActions
  /\ probe = NoProbe
  /\ NoHooks

\* Room for one more instance, counting those the requests in flight may make.
Room(cap) == Len(heap) + Len(inflight) < cap

Remove(seq, k) == SubSeq(seq, 1, k - 1) \o SubSeq(seq, k + 1, Len(seq))

\* A call that returns a new instance.
Returns(op, self, arg, a, requests, response) ==
  /\ heap' = Allocate(heap, a)
  /\ made' = Append(made, [op |-> op, self |-> self])
  /\ last' = Call(op, self, arg, Fulfilled(None), Some(Len(heap) + 1), requests, response)

\* A call whose promise settles: with a new instance, with null, or rejected.
Settles(op, self, arg, r, requests, response) ==
  IF r.outcome = "fulfilled" /\ IsSome(r.value)
  THEN Returns(op, self, arg, Get(r.value), requests, response)
  ELSE /\ last' = Call(op, self, arg, r, None, requests, response)
       /\ UNCHANGED <<heap, made>>

\* Action.hydrate(url, data, metadata, supportStrategy)
Hydrate(cap, argss) ==
  \E args \in argss :
    /\ Room(cap)
    /\ nanoid < cap
    /\ nanoid' = nanoid + 1
    /\ Returns("hydrate", 0, None,
               hydrate(args[1], args[2], args[3], args[4], nanoid + 1), <<>>, None)
    /\ UNCHANGED <<inflight, outside>>

\* Action.fetch(apiUrl, supportStrategy), up to the GET.
Fetch(cap, strategies) ==
  \E apiUrl \in Urls, s \in strategies :
    /\ Room(cap)
    /\ Len(inflight) < MaxInflight
    /\ nanoid < cap
    /\ nanoid' = nanoid + 1
    /\ inflight' = Append(inflight,
         [op |-> "fetch", self |-> 0, arg |-> None,
          args |-> fetch(apiUrl, s, nanoid + 1), request |-> fetchRequest(apiUrl)])
    /\ UNCHANGED <<heap, made, last, outside>>

\* action.refresh(), up to the GET.
Refresh(cap) ==
  \E i \in 1..Len(heap) :
    /\ Room(cap)
    /\ Len(inflight) < MaxInflight
    /\ inflight' = Append(inflight,
         [op |-> "refresh", self |-> i, arg |-> None,
          args |-> refresh(heap[i]), request |-> fetchRequest(refresh(heap[i]).apiUrl)])
    /\ UNCHANGED <<heap, made, nanoid, last, outside>>

\* _fetch from the response on: the promise of fetch or refresh settles.
FetchSettle(responses) ==
  \E k \in 1..Len(inflight), response \in responses :
    LET p == inflight[k]
    IN /\ p.op \in {"fetch", "refresh"}
       /\ inflight' = Remove(inflight, k)
       /\ Settles(p.op, p.self, p.arg,
                  fetchResponse(p.args.apiUrl, p.args.supportStrategy,
                                p.args.chainMetadata, p.args.id, response),
                  <<p.request>>, Some(response))
       /\ UNCHANGED <<nanoid, outside>>

\* action.chain(next, chainData), up to its first await: an inline link and a
\* cross-origin link settle at once, a same-origin link issues the POST.
Chain(cap, links) ==
  \E i \in 1..Len(heap), next \in links, chainData \in ChainDatas :
    LET self == heap[i]
        id == nanoid + 1
    IN /\ nanoid < cap
       /\ nanoid' = id
       /\ UNCHANGED outside
       /\ IF next.type = "inline"
          THEN /\ Room(cap)
               /\ Returns("chain", i, next, chainInline(self, next, id), <<>>, None)
               /\ UNCHANGED inflight
          ELSE IF ~chainSameOrigin(self, next)
          THEN /\ Settles("chain", i, next, Fulfilled(None), <<>>, None)
               /\ UNCHANGED inflight
          ELSE /\ Room(cap)
               /\ Len(inflight) < MaxInflight
               /\ inflight' = Append(inflight,
                    [op |-> "chain", self |-> i, arg |-> next,
                     args |-> [apiUrl |-> chainHref(self, next),
                               supportStrategy |-> self.supportStrategy,
                               chainMetadata |-> None, id |-> Some(id)],
                     request |-> chainRequest(chainHref(self, next), chainData)])
               /\ UNCHANGED <<heap, made, last>>

\* chain from the response of the POST on.
ChainSettle(responses) ==
  \E k \in 1..Len(inflight), response \in responses :
    LET p == inflight[k]
    IN /\ p.op = "chain"
       /\ inflight' = Remove(inflight, k)
       /\ Settles("chain", p.self, p.arg,
                  chainResponse(heap[p.self], p.args.apiUrl, Get(p.args.id), response),
                  <<p.request>>, Some(response))
       /\ UNCHANGED <<nanoid, outside>>

\* action.withUpdate(update)
WithUpdate(cap, updates) ==
  \E i \in 1..Len(heap), update \in updates :
    /\ Room(cap)
    /\ Returns("withUpdate", i, update, withUpdate(heap[i], update), <<>>, None)
    /\ UNCHANGED <<nanoid, inflight, outside>>

\* action.isSupported(adapter)
IsSupported ==
  \E i \in 1..Len(heap), adapter \in Adapters :
    /\ last' = [Call("isSupported", i, adapter, isSupported(heap[i], adapter),
                     None, <<>>, None)
                  EXCEPT !.verdict = isSupported(heap[i], adapter).value]
    /\ UNCHANGED <<heap, made, nanoid, inflight, outside>>

Next ==
  \/ Hydrate(MaxActions, HydrateArgs)
  \/ Fetch(MaxActions, {"defaultActionSupportStrategy", "rejecting"})
  \/ Refresh(MaxActions)
  \/ FetchSettle(Responses)
  \/ Chain(MaxActions, Links)
  \/ ChainSettle(Responses)
  \/ WithUpdate(MaxActions, Updates)
  \/ IsSupported

Spec == Init /\ [][Next]_vars

\* ------------------------------------------------------------ lineages
\* The same operations over fewer inputs and a deeper heap, to follow an
\* Action through several derivations.
LineageHydrateArgs ==
  {<<u, Manifest("action", Some(<<AmountLink>>), None),
     [blockchainIds |-> None, version |-> None], "defaultActionSupportStrategy">> : u \in Urls}

LineageLinks ==
  {[type |-> "inline", action |-> Manifest("completed", None, None), href |-> None]}
  \cup {[type |-> "post", action |-> None, href |-> h] : h \in Hrefs}

LineageResponses ==
  {Response(FALSE, FALSE, None, NoHeaders),
   Response(FALSE, TRUE, Some(Manifest("action", Some(<<AmountLink>>), LiveData200)),
            PaddedHeaders)}

LineageUpdates == {[supportStrategy |-> Some("throwing")]}

LineageNext ==
  \/ Hydrate(MaxLineage, LineageHydrateArgs)
  \/ Fetch(MaxLineage, {"defaultActionSupportStrategy"})
  \/ Refresh(MaxLineage)
  \/ FetchSettle(LineageResponses)
  \/ Chain(MaxLineage, LineageLinks)
  \/ ChainSettle(LineageResponses)
  \/ WithUpdate(MaxLineage, LineageUpdates)

LineageSpec == Init /\ [][LineageNext]_vars

\* ------------------------------------------------------------ functions
\* componentFactory and the liveData_experimental getter, each evaluated once
\* on an input drawn in the initial state.
ParameterTypes == {None, Some("text"), Some("checkbox"), Some("select")}

Parameters == {[name |-> "p", type |-> t] : t \in ParameterTypes}

ParameterLists ==
  {None} \cup {Some(ps) : ps \in UNION {[1..n -> Parameters] : n \in 0..MaxParameters}}

LinkedActionTypes == {"transaction", "post"}

FactoryInputs ==
  {[label |-> "Send", href |-> h, type |-> t, parameters |-> ps] :
     h \in {<<"https://", "a.com", "/next">>, <<"https://", "b.com", "/next">>},
     t \in LinkedActionTypes, ps \in ParameterLists}

\* ExperimentalFeatures: none, without liveData, or liveData with its flag and
\* an optional delay.
LiveDatas ==
  {[enabled |-> e, delayMs |-> d] :
     e \in BOOLEAN, d \in {None} \cup {Some(ms) : ms \in 0..MaxDelayMs}}

Experimentals ==
  {None, Some([liveData |-> None])} \cup {Some([liveData |-> Some(l)]) : l \in LiveDatas}

\* The liveData object of experimental features, if any.
LiveDataOf(experimental) ==
  IF IsSome(experimental) THEN Get(experimental).liveData ELSE None

FunctionInit ==
  /\ NoActions
  /\ NoHooks
  /\ \/ \E input \in FactoryInputs :
          probe = [fn |-> "componentFactory", input |-> input, done |-> FALSE,
                   result |-> None]
     \/ \E input \in Experimentals :
          probe = [fn |-> "liveData_experimental", input |-> input, done |-> FALSE,
                   result |-> None]

\* componentFactory(parent, label, href, type, parameters)
ComponentFactory ==
  /\ probe.fn = "componentFactory"
  /\ ~probe.done
  /\ probe' = [probe EXCEPT !.done = TRUE,
                !.result = Some(componentFactory(probe.input.label, probe.input.href,
                                                 probe.input.type, probe.input.parameters))]
  /\ UNCHANGED <<heap, made, nanoid, inflight, last, hookVars>>

\* action.liveData_experimental on an Action with the experimental features.
LiveDataExperimental ==
  /\ probe.fn = "liveData_experimental"
  /\ ~probe.done
  /\ \E u \in Urls :
       probe' = [probe EXCEPT !.done = TRUE,
                  !.result = liveData_experimental(
                     NewAction(u, Manifest("action", None, probe.input), NoHeaders,
                               "defaultActionSupportStrategy", None, None, probe.input))]
  /\ UNCHANGED <<heap, made, nanoid, inflight, last, hookVars>>

FunctionNext ==
  \/ ComponentFactory
  \/ LiveDataExperimental

FunctionSpec == FunctionInit /\ [][FunctionNext]_vars

\* ------------------------------------------------------------ hooks
\* useBlinkList, useActionApiUrl and useAction of one mounted component. A
\* handler is taken together with the render it causes and the effects that
\* render runs.
HookUrls == {<<"https://", "a.com", "/api">>, <<"https://", "b.com", "/api">>}

HookStrategies == {"defaultActionSupportStrategy", "throwing"}

\* What unfurlUrlToActionApiUrl(url) settles with: an api url, null, or a
\* rejection.
UnfurlResults(url) == {Fulfilled(Some(url)), Fulfilled(None), Rejected}

\* What the GET of Action.fetch comes back with.
HookResponses ==
  {Response(FALSE, FALSE, None, NoHeaders),
   Response(FALSE, TRUE, Some(Manifest("action", Some(<<AmountLink>>), None)), NoHeaders)}

\* What the GET of the blink list comes back with.
ListResponses ==
  {Response(TRUE, FALSE, None, NoHeaders),
   Response(FALSE, FALSE, None, NoHeaders),
   Response(FALSE, TRUE, None, NoHeaders),
   Response(FALSE, TRUE, Some([entries |-> <<"blink1">>]), NoHeaders)}

\* A promise a hook waits for, with the ignore flag its callbacks close over;
\* byEffect tells that the cancel function is held by an effect's cleanup and
\* not by the caller of refresh or refetch.
Op(kind, n, byEffect, arg, supportStrategy, id) ==
  [kind |-> kind, n |-> n, ignore |-> FALSE, byEffect |-> byEffect, arg |-> arg,
   supportStrategy |-> supportStrategy, id |-> id]

\* ignore = true, by the cleanup of the effect that started the operation.
Cleanup(ops, kind) ==
  {IF op.kind = kind /\ op.byEffect THEN [op EXCEPT !.ignore = TRUE] ELSE op : op \in ops}

\* fetchBlinkList: every failure is caught and gives no entries.
fetchBlinkList(response) ==
  IF response.failed \/ ~response.ok \/ ~IsSome(response.json)
  THEN [entries |-> <<>>]
  ELSE Get(response.json)

\* useBlinkList: the callbacks of refetch.
refetchSettled(b, ignore, data) ==
  IF ignore THEN b
  ELSE [b EXCEPT !.data = Some(data), !.loading = FALSE]

\* useActionApiUrl: the callbacks of the effect.
unfurlSettled(h, ignore, result) ==
  IF ignore THEN h
  ELSE IF result.outcome = "fulfilled"
  THEN [h EXCEPT !.isUrlLoading = FALSE, !.actionApiUrl = result.value]
  ELSE [h EXCEPT !.actionApiUrl = None, !.isUrlLoading = FALSE]

\* The callbacks of fetchAction with a finally that clears the flag unasked.
fetchActionSettled_FinallyUnguarded(h, ignore, result) ==
  IF ignore THEN [h EXCEPT !.isLoading = FALSE]
  ELSE IF result.outcome = "fulfilled"
  THEN [h EXCEPT !.isLoading = FALSE, !.action = result.value, !.hasFetched = TRUE]
  ELSE [h EXCEPT !.action = None, !.isLoading = FALSE]

\* useAction: the callbacks of fetchAction.
fetchActionSettled(h, ignore, result) ==
  IF ignore THEN h
  ELSE IF result.outcome = "fulfilled"
  THEN [h EXCEPT !.isLoading = FALSE, !.action = result.value, !.hasFetched = TRUE]
  ELSE [h EXCEPT !.action = None, !.isLoading = FALSE]

\* useAction with what its handlers and effects write besides its state: the
\* promises pending, the count of operations and of ids.
World == [h |-> useAction, ops |-> pending, n |-> started, ids |-> nanoid]

\* useActionApiUrl: the effect on [url], after the cleanup of its last run.
unfurlEffect(w) ==
  [w EXCEPT !.h.isUrlLoading = TRUE,
            !.ops = Cleanup(w.ops, "unfurl")
                      \cup {Op("unfurl", w.n + 1, TRUE, w.h.url, "", 0)},
            !.n = w.n + 1]

\* fetchAction(), called by the effect or by the caller of refresh.
fetchAction(w, byEffect) ==
  IF ~IsSome(w.h.actionApiUrl) THEN w
  ELSE [w EXCEPT !.h.isLoading = TRUE,
                 !.h.hasFetched = FALSE,
                 !.ops = w.ops \cup {Op("fetch", w.n + 1, byEffect, Get(w.h.actionApiUrl),
                                         w.h.supportStrategy, w.ids + 1)},
                 !.n = w.n + 1,
                 !.ids = w.ids + 1]

\* useAction: the effect on [actionApiUrl, isRegistryLoaded], after the
\* cleanup of its last run.
fetchEffect(w) ==
  LET cleaned == [w EXCEPT !.ops = Cleanup(w.ops, "fetch")]
  IN IF ~w.h.isRegistryLoaded THEN cleaned ELSE fetchAction(cleaned, TRUE)

\* useAction: the effect on [supportStrategy, hasFetched].
supportStrategyEffect(h) ==
  IF ~IsSome(h.action) \/ ~h.hasFetched THEN h
  ELSE [h EXCEPT !.action =
          Some(withUpdate(Get(h.action), [supportStrategy |-> Some(h.supportStrategy)]))]

\* The effects of useAction after a handler took the hook from before to w.h:
\* those whose dependencies changed run with the values of that render, and
\* the render that fetchAction causes runs the last effect once more.
Effects(before, w) ==
  LET fetchDeps == \/ before.actionApiUrl # w.h.actionApiUrl
                   \/ before.isRegistryLoaded # w.h.isRegistryLoaded
      strategyDeps == \/ before.supportStrategy # w.h.supportStrategy
                      \/ before.hasFetched # w.h.hasFetched
      w1 == IF fetchDeps THEN fetchEffect(w) ELSE w
      w2 == IF strategyDeps
            THEN [w1 EXCEPT !.h.action = supportStrategyEffect(w.h).action]
            ELSE w1
  IN IF w2.h.hasFetched # w.h.hasFetched
     THEN [w2 EXCEPT !.h = supportStrategyEffect(w2.h)]
     ELSE w2

\* get isLoading of what useAction returns.
isLoading(h) == ~h.isRegistryLoaded \/ h.isUrlLoading \/ h.isLoading

\* The component after its first render and the effects of that render: the
\* list is being fetched and the url unfurled; the registry may be loaded.
HookInit ==
  /\ NoActions
  /\ probe = NoProbe
  /\ mounted = TRUE
  /\ \E loaded \in BOOLEAN :
       LET h == [url |-> <<"https://", "a.com", "/api">>,
                 supportStrategy |-> "defaultActionSupportStrategy",
                 isRegistryLoaded |-> loaded, actionApiUrl |-> None,
                 isUrlLoading |-> FALSE, action |-> None, isLoading |-> FALSE,
                 hasFetched |-> FALSE]
           w == fetchEffect(unfurlEffect([h |-> h, ops |-> {}, n |-> 1, ids |-> 0]))
       IN /\ useAction = w.h
          /\ pending = w.ops \cup {Op("list", 1, TRUE, None, "", 0)}
          /\ started = w.n
  /\ useBlinkList = [loading |-> TRUE, data |-> None]
  /\ settled = [last |-> None, unfurl |-> 0, fetch |-> 0, list |-> 0]

\* What a handler of useAction leaves behind.
Write(w) ==
  /\ w.n <= MaxStarted
  /\ useAction' = w.h
  /\ pending' = w.ops
  /\ started' = w.n
  /\ nanoid' = w.ids

\* A promise settled: which one, whether it had been abandoned, whether its
\* result went into the state of the hook, after which one of its kind, and
\* whether one of its kind initiated later and not abandoned was pending.
Settled(op) ==
  LET committed == mounted /\ ~op.ignore
  IN [settled EXCEPT
        !.last = Some([kind |-> op.kind, n |-> op.n, ignored |-> op.ignore,
                       committed |-> committed, after |-> settled[op.kind],
                       superseded |-> \E other \in pending :
                                       /\ other.kind = op.kind
                                       /\ ~other.ignore
                                       /\ other.n > op.n]),
        ![op.kind] = IF committed THEN op.n ELSE @]

\* The component is rendered with another url.
UrlChange ==
  \E url \in HookUrls \ {useAction.url} :
    /\ mounted
    /\ Write(Effects(useAction, unfurlEffect([World EXCEPT !.h.url = url])))
    /\ UNCHANGED <<heap, made, inflight, last, probe, mounted, useBlinkList, settled>>

\* The component is rendered with another supportStrategy.
StrategyChange ==
  \E strategy \in HookStrategies \ {useAction.supportStrategy} :
    /\ mounted
    /\ Write(Effects(useAction, [World EXCEPT !.h.supportStrategy = strategy]))
    /\ UNCHANGED <<heap, made, inflight, last, probe, mounted, useBlinkList, settled>>

\* useActionsRegistryInterval reports the registry loaded.
RegistryLoaded ==
  /\ mounted
  /\ ~useAction.isRegistryLoaded
  /\ Write(Effects(useAction, [World EXCEPT !.h.isRegistryLoaded = TRUE]))
  /\ UNCHANGED <<heap, made, inflight, last, probe, mounted, useBlinkList, settled>>

\* The promise of unfurlUrlToActionApiUrl settles.
UnfurlSettle ==
  \E op \in pending :
    \E result \in UnfurlResults(op.arg) :
      LET w == [World EXCEPT !.ops = pending \ {op}]
      IN /\ op.kind = "unfurl"
         /\ IF mounted
            THEN Write(Effects(useAction,
                               [w EXCEPT !.h = unfurlSettled(w.h, op.ignore, result)]))
            ELSE Write(w)
         /\ settled' = Settled(op)
         /\ UNCHANGED <<heap, made, inflight, last, probe, mounted, useBlinkList>>

\* The caller calls the refresh that useAction returned.
RefreshAction ==
  /\ mounted
  /\ Write(Effects(useAction, fetchAction(World, FALSE)))
  /\ UNCHANGED <<heap, made, inflight, last, probe, mounted, useBlinkList, settled>>

\* The caller calls the cancel function that refresh or refetch returned.
Cancel ==
  \E op \in pending :
    /\ ~op.byEffect
    /\ ~op.ignore
    /\ pending' = (pending \ {op}) \cup {[op EXCEPT !.ignore = TRUE]}
    /\ UNCHANGED <<heap, made, nanoid, inflight, last, probe, mounted, useAction,
                   useBlinkList, started, settled>>

\* The promise of Action.fetch settles.
FetchActionSettle ==
  \E op \in pending, response \in HookResponses :
    LET args == fetch(op.arg, op.supportStrategy, op.id)
        result == fetchResponse(args.apiUrl, args.supportStrategy, args.chainMetadata,
                                args.id, response)
        w == [World EXCEPT !.ops = pending \ {op}]
    IN /\ op.kind = "fetch"
       /\ IF mounted
          THEN Write(Effects(useAction,
                             [w EXCEPT !.h = fetchActionSettled(w.h, op.ignore, result)]))
          ELSE Write(w)
       /\ settled' = Settled(op)
       /\ UNCHANGED <<heap, made, inflight, last, probe, mounted, useBlinkList>>

\* The caller calls the refetch that useBlinkList returned.
Refetch ==
  /\ mounted
  /\ started < MaxStarted
  /\ useBlinkList' = [useBlinkList EXCEPT !.loading = TRUE]
  /\ pending' = pending \cup {Op("list", started + 1, FALSE, None, "", 0)}
  /\ started' = started + 1
  /\ UNCHANGED <<heap, made, nanoid, inflight, last, probe, mounted, useAction, settled>>

\* The promise of fetchBlinkList settles.
ListSettle ==
  \E op \in pending, response \in ListResponses :
    /\ op.kind = "list"
    /\ pending' = pending \ {op}
    /\ useBlinkList' =
         IF mounted
         THEN refetchSettled(useBlinkList, op.ignore, fetchBlinkList(response))
         ELSE useBlinkList
    /\ settled' = Settled(op)
    /\ UNCHANGED <<heap, made, nanoid, inflight, last, probe, mounted, useAction, started>>

\* The component unmounts: every effect runs its cleanup.
Unmount ==
  /\ mounted
  /\ mounted' = FALSE
  /\ pending' = Cleanup(Cleanup(Cleanup(pending, "list"), "unfurl"), "fetch")
  /\ UNCHANGED <<heap, made, nanoid, inflight, last, probe, useAction, useBlinkList,
                 started, settled>>

HookNext ==
  \/ UrlChange
  \/ StrategyChange
  \/ RegistryLoaded
  \/ UnfurlSettle
  \/ RefreshAction
  \/ Cancel
  \/ FetchActionSettle
  \/ Refetch
  \/ ListSettle
  \/ Unmount

HookSpec == HookInit /\ [][HookNext]_vars

\* Instance i was obtained from instance j by chain, refresh and withUpdate.
RECURSIVE DerivedFrom(_, _)
DerivedFrom(i, j) ==
  \/ i = j
  \/ made[i].self # 0 /\ DerivedFrom(made[i].self, j)

\* Instance i was obtained from instance j by chain calls alone.
RECURSIVE ChainedFrom(_, _)
ChainedFrom(i, j) ==
  \/ i = j
  \/ made[i].op = "chain" /\ ChainedFrom(made[i].self, j)

\* ------------------------------------------------------------ claims

\* C1: chain lineage never returns to NotChained. Every Action obtained from
\* a Chained Action by chain, refresh and withUpdate is Chained; a NotChained
\* Action comes from fetch or hydrate, directly or through refresh and
\* withUpdate of a NotChained one.
C1_LineageStaysChained ==
  /\ \A i, j \in 1..Len(heap) :
       DerivedFrom(i, j) /\ isChained(heap[j]) => isChained(heap[i])
  /\ \A i \in 1..Len(heap) :
       ~isChained(heap[i]) =>
         \/ made[i].op \in {"fetch", "hydrate"}
         \/ /\ made[i].op \in {"refresh", "withUpdate"}
            /\ ~isChained(heap[made[i].self])

\* An Action made by chain from a NotChained one was refreshed.
C1_Witness ==
  \E i \in 1..Len(heap) :
    /\ made[i].op = "refresh"
    /\ made[made[i].self].op = "chain"
    /\ ~isChained(heap[made[made[i].self].self])

\* A remote link and the receiver's url: the href is absolute and its
\* origin is not the origin of the url.
CrossOrigin(url, next) ==
  /\ next.type # "inline"
  /\ StartsWithHttp(next.href)
  /\ UrlOrigin(next.href) # UrlOrigin(url)

\* A remote link whose href is relative, or absolute with the url's origin.
SameOrigin(url, next) == next.type # "inline" /\ ~CrossOrigin(url, next)

\* C2: chain with a remote link whose href is not same-origin with the
\* receiver's url resolves to null, does not reject, and issues no request:
\* none was sent by the call that settled and none is in flight for one.
C2_CrossOriginChainIsNull ==
  /\ (last.op = "chain" /\ CrossOrigin(heap[last.self].url, last.arg)) =>
       /\ last.outcome = "fulfilled"
       /\ last.value = None
       /\ last.requests = <<>>
  /\ \A k \in 1..Len(inflight) :
       inflight[k].op = "chain" =>
         ~CrossOrigin(heap[inflight[k].self].url, inflight[k].arg)

\* chain was called with a cross-origin link on an Action that chain made.
C2_Witness ==
  /\ last.op = "chain"
  /\ CrossOrigin(heap[last.self].url, last.arg)
  /\ made[last.self].op = "chain"

\* C3: chain with an inline link issues no request and resolves to a new
\* Action that is Chained with isInline = true, whatever the receiver's
\* chain metadata.
C3_InlineChainIsChainedInline ==
  /\ (last.op = "chain" /\ last.arg.type = "inline") =>
       /\ last.outcome = "fulfilled"
       /\ IsSome(last.value)
       /\ last.requests = <<>>
       /\ Get(last.value) # last.self
       /\ heap[Get(last.value)].chainMetadata = Chained(TRUE)
       /\ isChained(heap[Get(last.value)])
       /\ isInline(heap[Get(last.value)])
  /\ \A k \in 1..Len(inflight) :
       inflight[k].op = "chain" => inflight[k].arg.type # "inline"

\* chain was called with an inline link on an Action that is Chained and
\* not inline.
C3_Witness ==
  /\ last.op = "chain"
  /\ last.arg.type = "inline"
  /\ isChained(heap[last.self])
  /\ ~isInline(heap[last.self])

ChainFailed ==
  /\ last.op = "chain"
  /\ IsSome(last.response)
  /\ \/ Get(last.response).failed
     \/ ~Get(last.response).ok
     \/ ~IsSome(Get(last.response).json)

\* C5: every error while chain produces the Action of a same-origin remote
\* link (a status that is not ok, a failed POST, a body that is no manifest)
\* is swallowed: chain resolves to null and does not reject.
C5_ChainErrorsSwallowed ==
  ChainFailed => last.outcome = "fulfilled" /\ last.value = None

\* C6: the id of an Action returned by chain is generated by that call: no
\* instance constructed before carries it, the receiver least of all, and no
\* two Actions of a lineage built by chain calls share an id.
C6_ChainedIdIsFresh ==
  \A i \in 1..Len(heap) :
    made[i].op = "chain" =>
      /\ IsSome(heap[i].id)
      /\ heap[i].id # heap[made[i].self].id
      /\ \A j \in 1..(i - 1) : heap[j].id # heap[i].id
      /\ \A j \in 1..Len(heap) :
           j # i /\ (ChainedFrom(i, j) \/ ChainedFrom(j, i)) => heap[j].id # heap[i].id

\* An Action made by chain from an Action made by a remote chain.
C6_Witness ==
  \E i \in 1..Len(heap) :
    /\ made[i].op = "chain"
    /\ made[made[i].self].op = "chain"
    /\ ~isInline(heap[made[i].self])

\* C7: no operation mutates an existing Action. Every step, a failing call
\* included, leaves every instance as it was constructed, and a call that
\* returns an Action returns an instance that did not exist before.
C7_ActionsAreImmutable ==
  [][/\ Len(heap') >= Len(heap)
     /\ \A i \in 1..Len(heap) : heap'[i] = heap[i]
     /\ Len(heap') > Len(heap) =>
          /\ Len(heap') = Len(heap) + 1
          /\ last'.value = Some(Len(heap) + 1)
          /\ last'.self # Len(heap) + 1
     /\ Len(heap') = Len(heap) =>
          (last'.value = None \/ (last'.value = last.value /\ last'.op = last.op))]_vars

\* A chain call on an Action made by fetch was rejected.
C7_Witness ==
  /\ last.op = "chain"
  /\ last.outcome = "rejected"
  /\ made[last.self].op = "fetch"

\* Two Actions agree on every field the constructor is given.
SameFields(a, b) ==
  /\ b.url = a.url
  /\ b.data = a.data
  /\ b.metadata = a.metadata
  /\ b.supportStrategy = a.supportStrategy
  /\ b.chainMetadata = a.chainMetadata
  /\ b.id = a.id
  /\ b.experimental = a.experimental

\* C8: withUpdate(u) returns an Action with the receiver's url, data,
\* metadata, chain metadata, id and experimental features; its strategy is
\* u.supportStrategy when given and the receiver's otherwise, so that
\* withUpdate({}) equals the receiver field for field, and updating the
\* result with u again changes nothing.
C8_WithUpdateCopies ==
  (last.op = "withUpdate") =>
    LET a == heap[last.self]
        b == heap[Get(last.value)]
        u == last.arg
    IN /\ b.url = a.url
       /\ b.data = a.data
       /\ b.metadata = a.metadata
       /\ b.chainMetadata = a.chainMetadata
       /\ b.id = a.id
       /\ b.experimental = a.experimental
       /\ b.supportStrategy =
            IF u.supportStrategy = None THEN a.supportStrategy
            ELSE Get(u.supportStrategy)
       /\ (u.supportStrategy = None => SameFields(a, b))
       /\ SameFields(b, withUpdate(b, u))

\* withUpdate replaced the strategy of a fetched Action with live data.
C8_Witness ==
  /\ last.op = "withUpdate"
  /\ IsSome(last.arg.supportStrategy)
  /\ Get(last.arg.supportStrategy) # heap[last.self].supportStrategy
  /\ IsSome(heap[last.self].experimental)
  /\ made[last.self].op = "fetch"

\* C9: a refresh that succeeds issues one GET to the receiver's url and
\* resolves to a new Action with the receiver's url, support strategy and
\* chain metadata.
C9_RefreshKeepsUrlStrategyLineage ==
  (last.op = "refresh" /\ last.outcome = "fulfilled") =>
    LET a == heap[last.self]
    IN /\ IsSome(last.value)
       /\ Get(last.value) # last.self
       /\ Len(last.requests) = 1
       /\ last.requests[1].method = "GET"
       /\ last.requests[1].url = proxify(a.url).url
       /\ heap[Get(last.value)].url = a.url
       /\ heap[Get(last.value)].supportStrategy = a.supportStrategy
       /\ heap[Get(last.value)].chainMetadata = a.chainMetadata
       /\ isChained(heap[Get(last.value)]) = isChained(a)
       /\ isInline(heap[Get(last.value)]) = isInline(a)

\* An Action made by an inline chain was refreshed.
C9_Witness ==
  /\ last.op = "refresh"
  /\ last.outcome = "fulfilled"
  /\ isInline(heap[last.self])

\* C10: isSupported never rejects. It resolves to the verdict of the
\* strategy when the strategy returns one and to the failure verdict when the
\* strategy throws or rejects, and the same call made again in the state it
\* leaves has the same outcome.
C10_IsSupportedNeverRejects ==
  (last.op = "isSupported") =>
    LET a == heap[last.self]
    IN /\ last.outcome = "fulfilled"
       /\ IsSome(last.verdict)
       /\ a.supportStrategy \in {"throwing", "rejecting"} =>
            /\ Get(last.verdict).isSupported = FALSE
            /\ Get(last.verdict).message =
                 Some("Failed to check supportability, please contact your Blink client provider.")
       /\ a.supportStrategy = "defaultActionSupportStrategy" =>
            Get(last.verdict) = defaultActionSupportStrategy(a, last.arg)
       /\ isSupported(a, last.arg).outcome = last.outcome
       /\ isSupported(a, last.arg).value = last.verdict

\* isSupported was called on an Action whose strategy rejects.
C10_Witness ==
  /\ last.op = "isSupported"
  /\ heap[last.self].supportStrategy = "rejecting"

\* C11: every Action has at least one component in actions, whatever its
\* manifest, one whose links.actions is the empty list included.
C11_ActionsNeverEmpty ==
  \A i \in 1..Len(heap) : Len(heap[i].actions) >= 1

\* A manifest that is to degenerate to the placeholder button: it is
\* completed, or it has no linked actions, or their list is empty.
Degenerate(manifest) ==
  \/ manifest.type = "completed"
  \/ ~IsSome(manifest.links)
  \/ manifest.links = Some(<<>>)

\* The one Button on the Action's own url.
Placeholder(a) == << Component("Button", a.data.label, a.url, "transaction", None) >>

\* C12: an Action of a degenerate manifest has exactly one component, a Button
\* whose href is the Action's url: for the manifest every instance holds, and
\* for the manifest that fetch, refresh or chain received in the response.
C12_DegenerateIsOneButton ==
  /\ \A i \in 1..Len(heap) :
       Degenerate(heap[i].data) => heap[i].actions = Placeholder(heap[i])
  /\ (/\ last.op \in {"fetch", "refresh", "chain"}
      /\ IsSome(last.value)
      /\ IsSome(last.response)
      /\ IsSome(Get(last.response).json)) =>
       (Degenerate(Get(Get(last.response).json)) =>
          heap[Get(last.value)].actions = Placeholder(heap[Get(last.value)]))

\* C13: the component factory classifies by the parameter list alone: none or
\* empty gives a Button, two or more a Form, exactly one with a multi-value
\* type a MultiValue, exactly one without a type or with another type a
\* SingleValue. The classes are exhaustive and exclusive, and the component
\* keeps the label, href, linked type and parameters it was given.
C13_FactoryClassifies ==
  (probe.fn = "componentFactory" /\ probe.done) =>
    LET inp == probe.input
        n == IF IsSome(inp.parameters) THEN Len(Get(inp.parameters)) ELSE 0
        multi == /\ n = 1
                 /\ IsSome(Get(inp.parameters)[1].type)
                 /\ Get(Get(inp.parameters)[1].type) \in MULTI_VALUE_TYPES
        c == Get(probe.result)
    IN /\ c.kind \in {"Button", "Form", "MultiValue", "SingleValue"}
       /\ c.kind = "Button" <=> n = 0
       /\ c.kind = "Form" <=> n >= 2
       /\ c.kind = "MultiValue" <=> multi
       /\ c.kind = "SingleValue" <=> (n = 1 /\ ~multi)
       /\ c.label = inp.label
       /\ c.href = inp.href
       /\ c.type = inp.type
       /\ n > 0 => c.parameters = inp.parameters
       /\ n = 0 => c.parameters = None

\* The factory was given exactly one parameter of a multi-value type.
C13_Witness ==
  /\ probe.fn = "componentFactory"
  /\ probe.done
  /\ IsSome(probe.input.parameters)
  /\ Len(Get(probe.input.parameters)) = 1
  /\ Get(probe.input.parameters)[1].type = Some("checkbox")
  /\ Get(probe.result).kind = "MultiValue"

\* C16: a live-data configuration the getter exposes has delayMs >= 1000: the
\* larger of the configured delay and 1000 when a positive delay is
\* configured, and 1000 when the delay is absent or 0, whatever the flag.
C16_DelayIsClamped ==
  (probe.fn = "liveData_experimental" /\ probe.done /\ IsSome(probe.result)) =>
    LET given == Get(LiveDataOf(probe.input)).delayMs
        delayMs == Get(probe.result).delayMs
    IN /\ delayMs >= 1000
       /\ (IsSome(given) /\ Get(given) > 0) =>
            /\ delayMs >= Get(given)
            /\ delayMs \in {Get(given), 1000}
       /\ (~IsSome(given) \/ Get(given) = 0) => delayMs = 1000

\* The getter was read with a delay of 200 configured and answered 1000.
C16_Witness ==
  /\ probe.fn = "liveData_experimental"
  /\ probe.done
  /\ IsSome(LiveDataOf(probe.input))
  /\ Get(LiveDataOf(probe.input)).delayMs = Some(200)
  /\ IsSome(probe.result)
  /\ Get(probe.result).delayMs = 1000

\* C17, as stated: the getter is null whenever the configuration is absent or
\* not enabled, and not null only when it is enabled.
C17_NullUnlessEnabled ==
  (probe.fn = "liveData_experimental" /\ probe.done) =>
    (IsSome(probe.result) <=>
       (IsSome(LiveDataOf(probe.input)) /\ Get(LiveDataOf(probe.input)).enabled))

\* C17, amended: the getter is null exactly when there is no liveData
\* object; for a liveData object it is not null and passes the flag on.
C17_NullIffAbsent ==
  (probe.fn = "liveData_experimental" /\ probe.done) =>
    /\ IsSome(probe.result) <=> IsSome(LiveDataOf(probe.input))
    /\ IsSome(probe.result) =>
         Get(probe.result).enabled = Get(LiveDataOf(probe.input)).enabled

\* The getter was read on a configuration that is not enabled.
C17_Witness ==
  /\ probe.fn = "liveData_experimental"
  /\ probe.done
  /\ IsSome(LiveDataOf(probe.input))
  /\ ~Get(LiveDataOf(probe.input)).enabled
  /\ IsSome(probe.result)

\* The URL a request is sent to through the proxy.
Target(request) == Tail(request.url)

\* C18: the origin is kept along a lineage. An Action obtained by chain,
\* refresh and withUpdate has the origin of the Action it was obtained from,
\* and no request of such a call, the POST of chain or the GET of refresh,
\* goes to another origin than the receiver's.
C18_LineageStaysOnOrigin ==
  /\ \A i, j \in 1..Len(heap) :
       DerivedFrom(i, j) => UrlOrigin(heap[i].url) = UrlOrigin(heap[j].url)
  /\ \A k \in 1..Len(inflight) :
       inflight[k].self # 0 =>
         UrlOrigin(Target(inflight[k].request)) = UrlOrigin(heap[inflight[k].self].url)
  /\ \A k \in 1..Len(last.requests) :
       last.self # 0 =>
         UrlOrigin(Target(last.requests[k])) = UrlOrigin(heap[last.self].url)

\* C14: the completion of an abandoned operation (its ignore flag set by a
\* cancel function or by an effect's cleanup) changes no state of the hooks:
\* not the data or the loading flag of useBlinkList, not the api url, the
\* action, the loading flags or hasFetched of useAction.
C14_AbandonedChangesNothing ==
  [][\A op \in pending :
       (op.ignore /\ pending' = pending \ {op}) =>
         (useAction' = useAction /\ useBlinkList' = useBlinkList)]_vars

\* A fetch that an effect's cleanup or the caller abandoned has settled while
\* the component is mounted and waits with its loading flag set.
C14_Witness ==
  /\ mounted
  /\ IsSome(settled.last)
  /\ Get(settled.last).kind = "fetch"
  /\ Get(settled.last).ignored
  /\ useAction.isLoading

\* C15: of the operations of one kind, only the one initiated last has its
\* result committed: a result is committed after none that was initiated
\* later, and while none initiated later and not abandoned is pending.
C15_OnlyLatestCommitted ==
  (IsSome(settled.last) /\ Get(settled.last).committed) =>
    /\ Get(settled.last).n > Get(settled.last).after
    /\ ~Get(settled.last).superseded

\* C19: when the component is mounted and no fetch is in flight, the action
\* the hook holds, if any, is bound to the hook's current supportStrategy.
C19_ActionBoundToCurrentStrategy ==
  (/\ mounted
   /\ IsSome(useAction.action)
   /\ \A op \in pending : op.kind # "fetch") =>
    Get(useAction.action).supportStrategy = useAction.supportStrategy

\* C20: once the registry is loaded and every unfurl and fetch that was
\* started has settled, the isLoading that useAction returns is false.
C20_LoadingClears ==
  (/\ mounted
   /\ useAction.isRegistryLoaded
   /\ \A op \in pending : op.kind \notin {"unfurl", "fetch"}) =>
    ~isLoading(useAction)

====
